---- MODULE Spec2Model ----
\* Model of web_interface/static/js/main.js: the submit handler of the
\* analyzeForm page, its three helper functions and the DOM elements, network
\* requests and console it acts on.
\*
\* The handler is an async function.  JavaScript runs each segment between two
\* awaits to completion, so one action models one segment:
\*   lines 2-8    TypeAndSubmit, ValidationFailure (returns at line 7)
\*   lines 2-19   TypeAndSubmit, StartRequest (UI reset, fetch called,
\*                suspended at line 19)
\*   line 19 -> 67-73      FetchRejected  (network failure)
\*   lines 31-33 -> 67-73  FetchResolved  (status outside 200-299)
\*   lines 31-35           FetchResolved  (response.json() called, suspended
\*                                         at line 35)
\*   line 35 -> 67-73      JsonRejected   (the body is not JSON)
\*   lines 37-73           JsonResolved   (envelope check, rendering, catch,
\*                                         finally)
\* Nothing in the handler stops a submit event from firing while earlier runs
\* are suspended, so several runs can be pending at once.
\*
\* Spec drives the page with submit events and every kind of response.
\* SpecFields adds edits of the three fields between the events.  SpecEcho puts
\* the page in front of a server whose answer tells which text was sent.
EXTENDS Integers, Sequences, FiniteSets, TLC

VARIABLES
    text,               \* value of the #text field, a sequence of characters
    sourceLang,         \* value of #sourceLang
    targetLang,         \* value of #targetLang
    btnDisabled,        \* button[type="submit"].disabled
    errorDisplay,       \* #error style.display
    errorMessage,       \* #errorMessage textContent
    resultsDisplay,     \* #results style.display
    sentimentResult,    \* #sentimentResult innerHTML
    translationResult,  \* #translationResult innerHTML
    chatResult,         \* #chatResult innerHTML
    runs,               \* pending runs of the handler, in submission order
    console,            \* the last entry written to the console
    event               \* the stimulus delivered last, with what it carried

fields == <<text, sourceLang, targetLang>>
slots  == <<sentimentResult, translationResult, chatResult>>
banner == <<errorDisplay, errorMessage>>
vars   == <<text, sourceLang, targetLang, btnDisabled, errorDisplay, errorMessage,
            resultsDisplay, sentimentResult, translationResult, chatResult,
            runs, console, event>>

\* At most this many runs of the handler are pending at once.
MaxPending == 2

-----------------------------------------------------------------------------
\* JavaScript values.  A number is kept in thousandths (987 stands for 0.987).

Undefined == [t |-> "undefined", s |-> "", n |-> 0]
JStr(s)   == [t |-> "string", s |-> s, n |-> 0]
JNum(n)   == [t |-> "number", s |-> "", n |-> n]

\* ToBoolean, as applied by `if (x)` and `x ? a : b`.
Truthy(x) ==
    CASE x.t = "undefined" -> FALSE
      [] x.t = "string"    -> x.s # ""
      [] x.t = "number"    -> x.n # 0

Digit(d) ==
    CASE d = 0 -> "0" [] d = 1 -> "1" [] d = 2 -> "2" [] d = 3 -> "3"
      [] d = 4 -> "4" [] d = 5 -> "5" [] d = 6 -> "6" [] d = 7 -> "7"
      [] d = 8 -> "8" [] d = 9 -> "9"

RECURSIVE IntStr(_)
IntStr(k) == IF k < 10 THEN Digit(k) ELSE IntStr(k \div 10) \o Digit(k % 10)

\* Number.prototype.toFixed(2) on a non-negative number given in thousandths:
\* the nearest multiple of 0.01, written with exactly two decimals.
ToFixed2(n) ==
    LET h == (n + 5) \div 10
    IN  IntStr(h \div 100) \o "." \o Digit((h % 100) \div 10) \o Digit(h % 10)

\* The decimals of a number given in thousandths, without trailing zeros.
FracStr(f) ==
    IF f % 100 = 0 THEN Digit(f \div 100)
    ELSE IF f % 10 = 0 THEN Digit(f \div 100) \o Digit((f \div 10) % 10)
    ELSE Digit(f \div 100) \o Digit((f \div 10) % 10) \o Digit(f % 10)

\* ToString, as applied by a template literal, by new Error(x) and by the
\* innerHTML setter.
ToStr(x) ==
    CASE x.t = "undefined" -> "undefined"
      [] x.t = "string"    -> x.s
      [] x.t = "number"    ->
            IntStr(x.n \div 1000)
            \o (IF x.n % 1000 = 0 THEN "" ELSE "." \o FracStr(x.n % 1000))

-----------------------------------------------------------------------------
\* String.prototype.trim on a sequence of characters.

WhiteSpace == {" ", "\t", "\n"}

RECURSIVE TrimStart(_)
TrimStart(s) ==
    IF s # <<>> /\ Head(s) \in WhiteSpace THEN TrimStart(Tail(s)) ELSE s

RECURSIVE TrimEnd(_)
TrimEnd(s) ==
    IF s # <<>> /\ s[Len(s)] \in WhiteSpace
    THEN TrimEnd(SubSeq(s, 1, Len(s) - 1))
    ELSE s

Trim(s) == TrimEnd(TrimStart(s))

\* Variant: the text is tested without trim().
IsBlankUntrimmed(s) == s = << >>

\* `!text.trim()`: the empty string is the only falsy string.
IsBlank(s) == Trim(s) = <<>>

-----------------------------------------------------------------------------
\* What the server and the network can deliver.

\* A result slot of the envelope.  defined = FALSE is a key that is absent:
\* reading a property of it throws a TypeError.
Slot(error, label, score, body) ==
    [defined |-> TRUE, error |-> error, sentiment |-> label, score |-> score,
     body |-> body]
NoSlot == [defined |-> FALSE, error |-> Undefined, sentiment |-> Undefined,
           score |-> Undefined, body |-> Undefined]

SlotErrors == {JStr("X"), JStr("")}

\* sentiment: {sentiment, score}, {error} or absent; also a success shape whose
\* score is missing.
Sentiments ==
    {NoSlot,
     Slot(Undefined, JStr("POSITIVE"), JNum(987), Undefined),
     Slot(Undefined, JStr("NEGATIVE"), Undefined, Undefined)}
    \cup {Slot(e, Undefined, Undefined, Undefined) : e \in SlotErrors}

\* translation: {text}, {error} or absent.  body holds the text.
Translations ==
    {NoSlot, Slot(Undefined, Undefined, Undefined, JStr("Bonjour"))}
    \cup {Slot(e, Undefined, Undefined, Undefined) : e \in SlotErrors}

\* chat: {response}, {error} or absent.  body holds the response.
Chats ==
    {NoSlot, Slot(Undefined, Undefined, Undefined, JStr("Hello!")),
     Slot(JStr("X"), Undefined, Undefined, Undefined)}

TopErrors    == {JStr(""), JStr("bad input")}
Performances == {JStr("12ms")}

\* The value response.json() resolves to: JSON null, or an object.
NullData ==
    [object |-> FALSE, error |-> Undefined, sentiment |-> NoSlot,
     translation |-> NoSlot, chat |-> NoSlot, performance |-> Undefined]
Envelope(error, sentiment, translation, chat, performance) ==
    [object |-> TRUE, error |-> error, sentiment |-> sentiment,
     translation |-> translation, chat |-> chat, performance |-> performance]

\* The envelope whose three slots all succeeded.
AllGood ==
    Envelope(Undefined, Slot(Undefined, JStr("POSITIVE"), JNum(987), Undefined),
             Slot(Undefined, Undefined, Undefined, JStr("Bonjour")),
             Slot(Undefined, Undefined, Undefined, JStr("Hello!")), Undefined)

\* Every combination of the three slots; a top-level error alone and beside
\* three good slots; a performance field beside three good slots.
Datas ==
    {NullData}
    \cup {Envelope(Undefined, s, t, c, Undefined) :
            s \in Sentiments, t \in Translations, c \in Chats}
    \cup {Envelope(e, NoSlot, NoSlot, NoSlot, Undefined) : e \in TopErrors}
    \cup {[AllGood EXCEPT !.error = e] : e \in TopErrors}
    \cup {[AllGood EXCEPT !.performance = p] : p \in Performances}

Statuses == {200, 500}

\* The values the user can type into #text.
Texts == {<< >>, <<" ", "\n">>, <<" ", "h", "i", "\n">>}

-----------------------------------------------------------------------------
\* The stimulus delivered last: the page load, a submit event, or the settling of
\* a promise a run was waiting on, with what it carried.
Event(kind, status, data) == [kind |-> kind, status |-> status, data |-> data]

\* A pending run: where it is suspended ("fetch": line 19, "json": line 35),
\* the request body it built at lines 24-28, and how many times it has called
\* fetch.
Run(pc, body, sent) == [pc |-> pc, body |-> body, sent |-> sent]

Remove(seq, i) == SubSeq(seq, 1, i - 1) \o SubSeq(seq, i + 1, Len(seq))

EmptyTextMessage == "Please enter some text to analyze."
GenericMessage ==
    "An error occurred while processing your request. Please try again."

Init ==
    /\ text = << >>
    /\ sourceLang = "en"
    /\ targetLang = "fr"
    /\ btnDisabled = FALSE
    /\ errorDisplay = "none"
    /\ errorMessage = ""
    /\ resultsDisplay = "none"
    /\ sentimentResult = ""
    /\ translationResult = ""
    /\ chatResult = ""
    /\ runs = << >>
    /\ console = [level |-> "", name |-> "", message |-> ""]
    /\ event = Event("load", 0, NullData)

\* Variant: the results region is left as it is.
showErrorKeepsResults(message) ==
    /\ errorMessage' = message
    /\ errorDisplay' = "block"
    /\ resultsDisplay' = resultsDisplay

\* function showError(message), lines 76-82.
showError(message) ==
    /\ errorMessage' = message
    /\ errorDisplay' = "block"
    /\ resultsDisplay' = "none"

\* function hideError(), lines 84-86.
hideError == errorDisplay' = "none"

\* Variant: the results region is not hidden.
hideResultsForgotten == resultsDisplay' = resultsDisplay

\* function hideResults(), lines 88-90.
hideResults == resultsDisplay' = "none"

\* Variant: the trimmed text is sent.
RequestBodyTrimmed(v) ==
    [text |-> Trim(v), source_lang |-> sourceLang, target_lang |-> targetLang]

\* Lines 24-28: the request body.
RequestBody(v) ==
    [text |-> v, source_lang |-> sourceLang, target_lang |-> targetLang]

\* Variant: the validation branch leaves through the finally block.
ValidationFailureReenables ==
    /\ showError(EmptyTextMessage)
    /\ btnDisabled' = FALSE
    /\ UNCHANGED <<slots, runs, console>>

\* Lines 2-8 on a text that is empty or whitespace only: showError, return.
ValidationFailure ==
    /\ showError(EmptyTextMessage)
    /\ UNCHANGED <<btnDisabled, slots, runs, console>>

\* Lines 10-19 on any other text: the UI reset, then fetch is called with the
\* request body and the run is suspended.
StartRequest(v) ==
    /\ btnDisabled' = TRUE
    /\ hideError
    /\ hideResults
    /\ runs' = Append(runs, Run("fetch", RequestBody(v), 1))
    /\ UNCHANGED <<errorMessage, slots, console>>

\* Variant: the handler returns at once while the button is disabled.
TypeAndSubmitChecksButton(v) ==
    /\ IsBlank(v) \/ Len(runs) < MaxPending
    /\ IF btnDisabled
       THEN UNCHANGED <<btnDisabled, banner, resultsDisplay, slots, runs, console>>
       ELSE IF IsBlank(v) THEN ValidationFailure ELSE StartRequest(v)
    /\ text' = v
    /\ event' = Event("submit", 0, NullData)
    /\ UNCHANGED <<sourceLang, targetLang>>

\* The user types `v` into #text and the submit event fires: lines 2-19.  The
\* handler has no guard of its own: the event is taken whatever is pending
\* (the model stops at MaxPending pending runs).
TypeAndSubmit(v) ==
    /\ IsBlank(v) \/ Len(runs) < MaxPending
    /\ IF IsBlank(v) THEN ValidationFailure ELSE StartRequest(v)
    /\ text' = v
    /\ event' = Event("submit", 0, NullData)
    /\ UNCHANGED <<sourceLang, targetLang>>

\* Lines 67-69: the catch block.
Catch(name, message) ==
    /\ console' = [level |-> "error", name |-> name, message |-> message]
    /\ showError(GenericMessage)

\* Variant: the button is not touched on the way out.
FinallyLeavesButton == btnDisabled' = btnDisabled

\* Lines 70-73: the finally block.
Finally == btnDisabled' = FALSE

\* Variant: a rejected fetch is sent once more before giving up.
FetchRejectedRetries(i) ==
    /\ runs[i].pc = "fetch"
    /\ IF runs[i].sent < 2
       THEN /\ runs' = [runs EXCEPT ![i].sent = @ + 1]
            /\ UNCHANGED <<btnDisabled, banner, resultsDisplay, console>>
       ELSE /\ Catch("TypeError", "")
            /\ Finally
            /\ runs' = Remove(runs, i)
    /\ event' = Event("rejected", 0, NullData)
    /\ UNCHANGED <<fields, slots>>

\* Line 19 rejects (the network failed): catch, finally.
FetchRejected(i) ==
    /\ runs[i].pc = "fetch"
    /\ Catch("TypeError", "")
    /\ Finally
    /\ runs' = Remove(runs, i)
    /\ event' = Event("rejected", 0, NullData)
    /\ UNCHANGED <<fields, slots>>

\* Variant: every status from 200 up counts as a success.
ResponseOkFrom200(status) == status >= 200

\* response.ok
ResponseOk(status) == status \in 200..299

\* Line 19 resolves.  Lines 31-33 throw on a status outside 200-299; line 35
\* calls response.json() and suspends the run otherwise.
FetchResolved(i, status) ==
    /\ runs[i].pc = "fetch"
    /\ event' = Event("response", status, NullData)
    /\ IF ResponseOk(status)
       THEN /\ runs' = [runs EXCEPT ![i].pc = "json"]
            /\ UNCHANGED <<btnDisabled, banner, resultsDisplay, console>>
       ELSE /\ Catch("Error", "HTTP error! status: " \o IntStr(status))
            /\ Finally
            /\ runs' = Remove(runs, i)
    /\ UNCHANGED <<fields, slots>>

\* Line 35 rejects (the body is not JSON): catch, finally.
JsonRejected(i) ==
    /\ runs[i].pc = "json"
    /\ Catch("SyntaxError", "")
    /\ Finally
    /\ runs' = Remove(runs, i)
    /\ event' = Event("unparsable", 200, NullData)
    /\ UNCHANGED <<fields, slots>>

\* Variant: the message without the error styling.
ErrorSpanUnstyled(message) == "Error: " \o message

\* Lines 46, 52, 58: the inline error markup of a slot.
ErrorSpan(message) ==
    "<span class=\"text-danger\">Error: " \o message \o "</span>"

\* Lines 45-47.  Reading data.sentiment.error of an absent slot throws, and so
\* does score.toFixed when score is not a number.
SentimentThrows(s) ==
    \/ ~s.defined
    \/ ~Truthy(s.error) /\ s.score.t # "number"
sentimentHtml(s) ==
    IF Truthy(s.error)
    THEN ErrorSpan(ToStr(s.error))
    ELSE "Sentiment: " \o ToStr(s.sentiment)
         \o " (Score: " \o ToFixed2(s.score.n) \o ")"

\* Lines 51-53.
TranslationThrows(s) == ~s.defined
translationHtml(s) ==
    IF Truthy(s.error) THEN ErrorSpan(ToStr(s.error)) ELSE ToStr(s.body)

\* Lines 57-59.
ChatThrows(s) == ~s.defined
chatHtml(s) ==
    IF Truthy(s.error) THEN ErrorSpan(ToStr(s.error)) ELSE ToStr(s.body)

\* Variant: a top-level error is not thrown.
EnvelopeThrowsOnNullOnly(data) == ~data.object

\* Lines 37-39: data.error of null throws a TypeError, a truthy data.error is
\* thrown as an Error.
EnvelopeThrows(data) == ~data.object \/ Truthy(data.error)

\* Where the try block stops on `data`: the statement that throws, or "end".
RenderStop(data) ==
    IF EnvelopeThrows(data) THEN "envelope"
    ELSE IF SentimentThrows(data.sentiment) THEN "sentiment"
    ELSE IF TranslationThrows(data.translation) THEN "translation"
    ELSE IF ChatThrows(data.chat) THEN "chat"
    ELSE "end"

\* The error object the try block throws on `data`.
ThrownName(data) ==
    IF data.object /\ Truthy(data.error) THEN "Error" ELSE "TypeError"
ThrownMessage(data) ==
    IF data.object /\ Truthy(data.error) THEN ToStr(data.error) ELSE ""

\* Variant: the performance data is appended to the chat result.
JsonResolvedShowsPerformance(i, data) ==
    /\ runs[i].pc = "json"
    /\ LET stop == RenderStop(data)
       IN  /\ sentimentResult' =
                IF stop \in {"translation", "chat", "end"}
                THEN sentimentHtml(data.sentiment) ELSE sentimentResult
           /\ translationResult' =
                IF stop \in {"chat", "end"}
                THEN translationHtml(data.translation) ELSE translationResult
           /\ chatResult' =
                IF stop = "end"
                THEN chatHtml(data.chat)
                     \o (IF Truthy(data.performance)
                         THEN " (" \o ToStr(data.performance) \o ")" ELSE "")
                ELSE chatResult
           /\ IF stop = "end"
              THEN /\ resultsDisplay' = "block"
                   /\ console' =
                        IF Truthy(data.performance)
                        THEN [level |-> "log", name |-> "Performance:",
                              message |-> ToStr(data.performance)]
                        ELSE console
                   /\ UNCHANGED banner
              ELSE Catch(ThrownName(data), ThrownMessage(data))
    /\ Finally
    /\ runs' = Remove(runs, i)
    /\ event' = Event("body", 200, data)
    /\ UNCHANGED fields

\* Line 35 resolves with `data`.  Lines 37-65 run up to the statement that
\* throws; the slots written before it keep what was written.  Line 42 reveals
\* the results before any slot is read, and showError in the catch block hides
\* them again.
JsonResolved(i, data) ==
    /\ runs[i].pc = "json"
    /\ LET stop == RenderStop(data)
       IN  /\ sentimentResult' =
                IF stop \in {"translation", "chat", "end"}
                THEN sentimentHtml(data.sentiment) ELSE sentimentResult
           /\ translationResult' =
                IF stop \in {"chat", "end"}
                THEN translationHtml(data.translation) ELSE translationResult
           /\ chatResult' =
                IF stop = "end" THEN chatHtml(data.chat) ELSE chatResult
           /\ IF stop = "end"
              THEN /\ resultsDisplay' = "block"
                   /\ console' =
                        IF Truthy(data.performance)
                        THEN [level |-> "log", name |-> "Performance:",
                              message |-> ToStr(data.performance)]
                        ELSE console
                   /\ UNCHANGED banner
              ELSE Catch(ThrownName(data), ThrownMessage(data))
    /\ Finally
    /\ runs' = Remove(runs, i)
    /\ event' = Event("body", 200, data)
    /\ UNCHANGED fields

Next ==
    \/ \E v \in Texts : TypeAndSubmit(v)
    \/ \E i \in 1..Len(runs) : FetchRejected(i)
    \/ \E i \in 1..Len(runs), status \in Statuses : FetchResolved(i, status)
    \/ \E i \in 1..Len(runs) : JsonRejected(i)
    \/ \E i \in 1..Len(runs), data \in Datas : JsonResolved(i, data)

Spec == Init /\ [][Next]_vars

-----------------------------------------------------------------------------
\* The page with its three fields edited between the events: the user types
\* into #text and picks languages at any time, also while requests are
\* pending, and the submit event reads the fields as they are then.

SourceLangs == {"en", "es"}
TargetLangs == {"fr", "de"}

\* The user types into #text.
EditText(v) ==
    /\ text' = v
    /\ event' = Event("input", 0, NullData)
    /\ UNCHANGED <<sourceLang, targetLang, btnDisabled, banner, resultsDisplay,
                   slots, runs, console>>

\* The user picks a source language.
SelectSourceLang(l) ==
    /\ sourceLang' = l
    /\ event' = Event("input", 0, NullData)
    /\ UNCHANGED <<text, targetLang, btnDisabled, banner, resultsDisplay,
                   slots, runs, console>>

\* The user picks a target language.
SelectTargetLang(l) ==
    /\ targetLang' = l
    /\ event' = Event("input", 0, NullData)
    /\ UNCHANGED <<text, sourceLang, btnDisabled, banner, resultsDisplay,
                   slots, runs, console>>

\* The submit event fires on the fields as they are: lines 2-19.
SubmitForm == TypeAndSubmit(text)

\* The bodies delivered here: three good slots, or JSON null.
FieldDatas == {AllGood, NullData}

NextFields ==
    \/ \E v \in Texts : EditText(v)
    \/ \E l \in SourceLangs : SelectSourceLang(l)
    \/ \E l \in TargetLangs : SelectTargetLang(l)
    \/ SubmitForm
    \/ \E i \in 1..Len(runs) : FetchRejected(i)
    \/ \E i \in 1..Len(runs), status \in Statuses : FetchResolved(i, status)
    \/ \E i \in 1..Len(runs), data \in FieldDatas : JsonResolved(i, data)

SpecFields == Init /\ [][NextFields]_vars

-----------------------------------------------------------------------------
\* The page in front of a server that answers every request with three good
\* slots made from the request: the translation and the chat response tell
\* which text was sent.

EchoTexts == {<<"h", "i">>, <<"y", "o">>}

\* The body the server sends back for a request body.
Reply(body) ==
    IF body.text = <<"h", "i">>
    THEN AllGood
    ELSE [AllGood EXCEPT
            !.translation = Slot(Undefined, Undefined, Undefined, JStr("Salut")),
            !.chat = Slot(Undefined, Undefined, Undefined, JStr("Yo!"))]

NextEcho ==
    \/ \E v \in EchoTexts : TypeAndSubmit(v)
    \/ \E i \in 1..Len(runs) : FetchRejected(i)
    \/ \E i \in 1..Len(runs) : FetchResolved(i, 200)
    \/ \E i \in 1..Len(runs) : JsonResolved(i, Reply(runs[i].body))

SpecEcho == Init /\ [][NextEcho]_vars

-----------------------------------------------------------------------------
\* Vocabulary of the properties, stated on what was delivered and on what the
\* page shows, not on the handler's own tests.

AllWhiteSpace(s) == \A k \in 1..Len(s) : s[k] \in WhiteSpace

BannerShows(message) == errorDisplay = "block" /\ errorMessage = message

Pending(pc) == {i \in 1..Len(runs) : runs[i].pc = pc}

\* C1: after any outcome of a submission the submit control ends enabled: in
\* every state in which no run of the handler is pending, the button's disabled
\* flag is false, whatever submissions and responses came before.
C1_EnabledWhenNothingPending == runs = << >> => btnDisabled = FALSE

\* C1 witness: a request failed with a non-2xx status, nothing is pending any
\* more and the button is enabled.
C1_Witness ==
    /\ event.kind = "response" /\ event.status = 500
    /\ runs = << >>
    /\ btnDisabled = FALSE

\* C3: a submit event on empty or whitespace-only text issues no request (the
\* pending runs are left as they were) and leaves the banner showing "Please
\* enter some text to analyze." with the results region hidden, in whatever
\* state the event fires.
C3_BlankSubmitShowsErrorOnly ==
    [][(event'.kind = "submit" /\ AllWhiteSpace(text'))
        => /\ runs' = runs
           /\ errorDisplay' = "block"
           /\ errorMessage' = "Please enter some text to analyze."
           /\ resultsDisplay' = "none"]_vars

\* C3 witness: whitespace-only text was submitted while a request was in
\* flight; the banner shows the empty-input message.
C3_Witness ==
    /\ event.kind = "submit" /\ text = <<" ", "\n">>
    /\ Len(runs) = 1
    /\ BannerShows(EmptyTextMessage)
    /\ resultsDisplay = "none"

\* C5: a response with a non-2xx status is never parsed (no run goes on to wait
\* for response.json()), writes no slot, does not reveal the results region and
\* ends with the generic banner shown.
C5_Non2xxShowsGenericBanner ==
    [][(event'.kind = "response" /\ event'.status \notin 200..299)
        => /\ Len(runs') = Len(runs) - 1
           /\ Cardinality({i \in 1..Len(runs') : runs'[i].pc = "json"})
                = Cardinality(Pending("json"))
           /\ slots' = slots
           /\ resultsDisplay' = "none"
           /\ errorDisplay' = "block"
           /\ errorMessage'
                = "An error occurred while processing your request. Please try again."]_vars

\* C5 witness: a 500 response arrived while the slots held an earlier result;
\* the generic banner is shown and the results are hidden.
C5_Witness ==
    /\ event.kind = "response" /\ event.status = 500
    /\ BannerShows(GenericMessage)
    /\ resultsDisplay = "none"
    /\ translationResult = "Bonjour"

\* C2 (as claimed): a 200 response whose envelope carries a top-level error
\* message makes the banner show exactly that message, with the results region
\* hidden and no slot written.
C2_TopLevelErrorShownVerbatim ==
    [][(/\ event'.kind = "body"
        /\ event'.data.object
        /\ event'.data.error.t = "string"
        /\ event'.data.error.s # "")
        => /\ errorDisplay' = "block"
           /\ errorMessage' = event'.data.error.s
           /\ resultsDisplay' = "none"
           /\ slots' = slots]_vars

\* C4 (as claimed): whenever a request is in flight (fetch called and not yet
\* settled) the submit control is disabled.
C4_DisabledWhileInFlight == Pending("fetch") # {} => btnDisabled = TRUE

\* Shapes of a slot as the server documents them.
CarriesError(s) == s.defined /\ s.error.t = "string"
GoodSentiment(s) ==
    /\ s.defined /\ s.error.t = "undefined"
    /\ s.sentiment.t = "string" /\ s.score.t = "number"
GoodBody(s) == s.defined /\ s.error.t = "undefined" /\ s.body.t = "string"

\* What the page is expected to show for a slot.
ExpectedError(s) ==
    "<span class=\"text-danger\">Error: " \o s.error.s \o "</span>"
ExpectedScore(n) == CASE n = 987 -> "0.99"
ExpectedSentiment(s) ==
    IF CarriesError(s) THEN ExpectedError(s)
    ELSE "Sentiment: " \o s.sentiment.s
         \o " (Score: " \o ExpectedScore(s.score.n) \o ")"
ExpectedBody(s) == IF CarriesError(s) THEN ExpectedError(s) ELSE s.body.s

SlotsShow(data) ==
    /\ resultsDisplay = "block"
    /\ sentimentResult = ExpectedSentiment(data.sentiment)
    /\ translationResult = ExpectedBody(data.translation)
    /\ chatResult = ExpectedBody(data.chat)

\* C6 (as claimed): on a 200 response without a top-level error, every slot
\* that carries error = X renders "Error: X" with error styling and every slot
\* that succeeded renders its content, each whatever the other two hold, and
\* the results region is revealed.
C6_EachSlotRendersAlone ==
    (/\ event.kind = "body"
     /\ event.data.object
     /\ event.data.error.t = "undefined"
     /\ CarriesError(event.data.sentiment) \/ GoodSentiment(event.data.sentiment)
     /\ CarriesError(event.data.translation) \/ GoodBody(event.data.translation)
     /\ CarriesError(event.data.chat) \/ GoodBody(event.data.chat))
    => SlotsShow(event.data)

\* C6 (amended): the same for slots whose error X is a non-empty string.  An
\* empty error string is falsy and sends the slot down the success branch.
NonEmptyError(s) == CarriesError(s) /\ s.error.s # ""
C6_EachSlotRendersAloneNonEmpty ==
    (/\ event.kind = "body"
     /\ event.data.object
     /\ event.data.error.t = "undefined"
     /\ NonEmptyError(event.data.sentiment) \/ GoodSentiment(event.data.sentiment)
     /\ NonEmptyError(event.data.translation) \/ GoodBody(event.data.translation)
     /\ NonEmptyError(event.data.chat) \/ GoodBody(event.data.chat))
    => SlotsShow(event.data)

\* C6 witness: sentiment failed with "X", translation and chat succeeded; the
\* sentiment slot shows the styled error and the other two their content.
C6_Witness ==
    /\ event.kind = "body"
    /\ event.data.sentiment.error = JStr("X")
    /\ GoodBody(event.data.translation) /\ GoodBody(event.data.chat)
    /\ resultsDisplay = "block"
    /\ sentimentResult = "<span class=\"text-danger\">Error: X</span>"
    /\ translationResult = "Bonjour"
    /\ chatResult = "Hello!"

\* C7 (as claimed): a 200 response with all three slots successful ends with
\* the banner hidden, the results region revealed and the three slots showing
\* that response.
C7_SuccessHidesBanner ==
    (/\ event.kind = "body"
     /\ event.data.object
     /\ event.data.error.t = "undefined"
     /\ GoodSentiment(event.data.sentiment)
     /\ GoodBody(event.data.translation)
     /\ GoodBody(event.data.chat))
    => errorDisplay = "none" /\ SlotsShow(event.data)

\* The deliveries on which the handler's try block throws: a rejected fetch, a
\* non-2xx status, a body that is not JSON, JSON null, a top-level error, an
\* absent slot, or a sentiment slot with neither an error nor a numeric score.
Failed(e) ==
    \/ e.kind \in {"rejected", "unparsable"}
    \/ e.kind = "response" /\ e.status \notin 200..299
    \/ /\ e.kind = "body"
       /\ \/ ~e.data.object
          \/ e.data.error.t = "string" /\ e.data.error.s # ""
          \/ ~e.data.sentiment.defined
          \/ ~e.data.translation.defined
          \/ ~e.data.chat.defined
          \/ /\ e.data.sentiment.error \in {Undefined, JStr("")}
             /\ e.data.sentiment.score.t # "number"

\* C8: on any error thrown after the request was started, also one thrown
\* while rendering after the results region was revealed, the handler ends
\* with the generic banner shown and the results region hidden.
C8_AnyThrowShowsGenericBanner ==
    Failed(event)
    => /\ errorDisplay = "block"
       /\ errorMessage
            = "An error occurred while processing your request. Please try again."
       /\ resultsDisplay = "none"

\* C8 witness: the translation slot is absent, so line 51 throws after line 42
\* revealed the results and line 48 wrote the sentiment slot; the banner is
\* shown and the results are hidden.
C8_Witness ==
    /\ event.kind = "body"
    /\ event.data.object
    /\ GoodSentiment(event.data.sentiment)
    /\ ~event.data.translation.defined
    /\ sentimentResult = "Sentiment: POSITIVE (Score: 0.99)"
    /\ BannerShows(GenericMessage)
    /\ resultsDisplay = "none"

\* C9: a submit event on text that is not blank calls fetch exactly once (one
\* run is added, with one request sent), no other step adds a request, and no
\* pending run ever has more than one request to its name: nothing is retried.
C9_OneRequestPerSubmission ==
    [][/\ (event'.kind = "submit" /\ ~AllWhiteSpace(text'))
            => runs' = Append(runs, [pc |-> "fetch", sent |-> 1,
                                     body |-> runs'[Len(runs')].body])
       /\ event'.kind # "submit" => Len(runs') <= Len(runs)
       /\ \A i \in 1..Len(runs') : runs'[i].sent = 1]_vars

\* C9 witness: the first of two requests was rejected by the network; the
\* second is still the only request of its submission and nothing was re-sent.
C9_Witness ==
    /\ event.kind = "rejected"
    /\ Len(runs) = 1
    /\ runs[1].pc = "fetch" /\ runs[1].sent = 1

\* C10 (as claimed): a run leaves the submitting state only when its request
\* settles; when it leaves, the page shows exactly one of success (results
\* revealed) and error (banner shown); and with nothing pending the control is
\* enabled again.
C10_ExactlyOneOutcome ==
    [][/\ Len(runs') < Len(runs)
            => /\ event'.kind \in {"rejected", "response", "unparsable", "body"}
               /\ (resultsDisplay' = "block") # (errorDisplay' = "block")
       /\ runs' = << >> => btnDisabled' = FALSE]_vars

\* C11 (as claimed): while a request stays in flight the page stays as the
\* submission left it: in a step in which some in-flight request does not
\* settle, a disabled control stays disabled, a hidden banner stays hidden and
\* hidden results stay hidden; only the settling of that request changes them.
SomeRequestStaysInFlight ==
    \E i \in Pending("fetch") :
        \E j \in 1..Len(runs') : runs'[j] = runs[i]
C11_HangingRequestKeepsPage ==
    [][(/\ SomeRequestStaysInFlight
        /\ btnDisabled = TRUE
        /\ errorDisplay = "none"
        /\ resultsDisplay = "none")
        => /\ btnDisabled' = TRUE
           /\ errorDisplay' = "none"
           /\ resultsDisplay' = "none"]_vars

\* C12: the handler has no guard against overlapping submissions: a submit
\* event on text that is not blank, fired while a request is in flight and the
\* button is disabled, starts one more request, which is in flight beside the
\* earlier one.
C12_SubmitWhilePendingSendsAgain ==
    [][(/\ event'.kind = "submit"
        /\ ~AllWhiteSpace(text')
        /\ Pending("fetch") # {}
        /\ btnDisabled = TRUE)
        => /\ Len(runs') = Len(runs) + 1
           /\ runs'[Len(runs')].pc = "fetch"
           /\ \A i \in Pending("fetch") : runs'[i] = runs[i]]_vars

\* C12 witness: two requests are in flight at once.
C12_Witness ==
    /\ event.kind = "submit"
    /\ Cardinality(Pending("fetch")) = 2
    /\ btnDisabled = TRUE

\* C13: the performance field reaches the console only.  What the user sees
\* after a successful response is fixed by the page before it and by the
\* response with its performance field removed: the banner as it was, the
\* results revealed, the button enabled and the three slots showing the three
\* results; so two successful responses that differ only in performance leave
\* the same visible state.  A performance string that is present is logged.
WithoutPerformance(data) == [data EXCEPT !.performance = Undefined]
C13_PerformanceOnlyLogged ==
    [][(/\ event'.kind = "body"
        /\ event'.data.object
        /\ event'.data.error.t = "undefined"
        /\ GoodSentiment(event'.data.sentiment)
        /\ GoodBody(event'.data.translation)
        /\ GoodBody(event'.data.chat))
        => LET seen == WithoutPerformance(event'.data)
           IN  /\ banner' = banner
               /\ resultsDisplay' = "block"
               /\ btnDisabled' = FALSE
               /\ sentimentResult' = ExpectedSentiment(seen.sentiment)
               /\ translationResult' = ExpectedBody(seen.translation)
               /\ chatResult' = ExpectedBody(seen.chat)
               /\ IF event'.data.performance.t = "string"
                     /\ event'.data.performance.s # ""
                  THEN console' = [level |-> "log", name |-> "Performance:",
                                   message |-> event'.data.performance.s]
                  ELSE console' = console]_vars

\* C13 witness: a successful response with a performance field arrived; the
\* field is in the console and the page shows the three results and no more.
C13_Witness ==
    /\ event.kind = "body"
    /\ event.data.performance = JStr("12ms")
    /\ console.level = "log" /\ console.message = "12ms"
    /\ resultsDisplay = "block"
    /\ sentimentResult = "Sentiment: POSITIVE (Score: 0.99)"
    /\ translationResult = "Bonjour"
    /\ chatResult = "Hello!"

\* C14: the body of every request holds exactly the fields text, source_lang
\* and target_lang, with the values #text (untrimmed), #sourceLang and
\* #targetLang have when the submit event fires; editing a field while requests
\* are pending changes no request body, and a body stays the same while its
\* run waits for response.json().
C14_BodyIsFieldsAtSubmit ==
    [][/\ (event'.kind = "submit" /\ ~AllWhiteSpace(text))
            => /\ fields' = fields
               /\ Len(runs') = Len(runs) + 1
               /\ DOMAIN runs'[Len(runs')].body
                    = {"text", "source_lang", "target_lang"}
               /\ runs'[Len(runs')].body.text = text
               /\ runs'[Len(runs')].body.source_lang = sourceLang
               /\ runs'[Len(runs')].body.target_lang = targetLang
               /\ SubSeq(runs', 1, Len(runs)) = runs
       /\ event'.kind = "input" => runs' = runs
       /\ (event'.kind = "response" /\ Len(runs') = Len(runs))
            => \A i \in 1..Len(runs) : runs'[i].body = runs[i].body]_vars

\* C14 witness: all three fields were changed after the submission; the
\* pending request still carries the padded text and the languages read then.
C14_Witness ==
    /\ event.kind = "input"
    /\ Len(runs) = 1
    /\ runs[1].body = [text |-> <<" ", "h", "i", "\n">>,
                       source_lang |-> "en", target_lang |-> "fr"]
    /\ text = << >> /\ sourceLang = "es" /\ targetLang = "de"

\* C15: on a submit event whose text is not blank the UI reset is done when
\* fetch is called: in the state in which the request has just been issued
\* the control is disabled, the banner is hidden and the results region is
\* hidden.  The reset is idempotent: on a page that is already reset it changes
\* nothing, and it never touches the banner text or the slots.
C15_ResetBeforeRequest ==
    [][(event'.kind = "submit" /\ ~AllWhiteSpace(text'))
        => /\ Len(runs') = Len(runs) + 1
           /\ runs'[Len(runs')].pc = "fetch"
           /\ btnDisabled' = TRUE
           /\ errorDisplay' = "none"
           /\ resultsDisplay' = "none"
           /\ errorMessage' = errorMessage
           /\ slots' = slots
           /\ (btnDisabled = TRUE /\ errorDisplay = "none" /\ resultsDisplay = "none")
                => UNCHANGED <<btnDisabled, banner, resultsDisplay, slots>>]_vars

\* C15 witness: a request was issued from a page that showed results and then
\* the generic banner; the request is in flight with the banner hidden, the
\* results hidden and the control disabled.
C15_Witness ==
    /\ event.kind = "submit"
    /\ Len(runs) = 1 /\ runs[1].pc = "fetch"
    /\ btnDisabled = TRUE
    /\ errorDisplay = "none" /\ errorMessage = GenericMessage
    /\ resultsDisplay = "none" /\ translationResult = "Bonjour"

\* C16 (as claimed): the error banner and the results region are never both
\* visible.
C16_NeverBannerAndResults ==
    ~(errorDisplay = "block" /\ resultsDisplay = "block")

\* C17: a submit event on blank text changes nothing but the banner text, the
\* banner visibility and the results visibility: the disabled flag, the three
\* slots, the pending runs (so the requests in flight), the language fields
\* and the console stay as they were.
C17_ValidationFailureFrame ==
    [][(event'.kind = "submit" /\ AllWhiteSpace(text'))
        => /\ btnDisabled' = btnDisabled
           /\ slots' = slots
           /\ runs' = runs
           /\ console' = console
           /\ sourceLang' = sourceLang /\ targetLang' = targetLang]_vars

\* C17 witness: empty text was submitted while a run waited for its body; the
\* control is still disabled and the slots still hold the earlier result.
C17_Witness ==
    /\ event.kind = "submit" /\ text = << >>
    /\ Len(runs) = 1 /\ runs[1].pc = "json"
    /\ btnDisabled = TRUE
    /\ BannerShows(EmptyTextMessage)
    /\ translationResult = "Bonjour"

\* C18 (as claimed): every remote failure leaves the three slots exactly as
\* they were.
C18_FailureLeavesSlots ==
    [][Failed(event') => slots' = slots]_vars

\* A body on which the try block gets past the sentiment slot: an object without
\* a top-level error whose sentiment slot holds an error message or a score.
PastSentiment(data) ==
    /\ data.object
    /\ ~(data.error.t = "string" /\ data.error.s # "")
    /\ NonEmptyError(data.sentiment) \/ GoodSentiment(data.sentiment)

\* What a translation or chat slot that is present is expected to show.
ShownBody(s) ==
    IF NonEmptyError(s) THEN ExpectedError(s)
    ELSE IF s.body.t = "string" THEN s.body.s
    ELSE "undefined"

\* C18 (amended): a remote failure thrown before the first slot is written
\* leaves the three slots as they were: a rejected fetch, a non-2xx status, an
\* unparsable body, JSON null, a top-level error, an absent or malformed
\* sentiment slot.  A body whose translation slot is absent leaves the
\* sentiment slot rewritten and the other two as they were; a body whose chat
\* slot alone is absent leaves the sentiment and translation slots rewritten
\* and the chat slot as it was.
C18_FailureLeavesLaterSlots ==
    [][Failed(event') =>
        IF event'.kind = "body" /\ PastSentiment(event'.data)
        THEN /\ sentimentResult' = ExpectedSentiment(event'.data.sentiment)
             /\ chatResult' = chatResult
             /\ translationResult' =
                  IF event'.data.translation.defined
                  THEN ShownBody(event'.data.translation)
                  ELSE translationResult
        ELSE slots' = slots]_vars

\* C18 witness: the first response lacks the chat slot; the hidden results
\* region holds its sentiment and translation and an empty chat slot.
C18_Witness ==
    /\ event.kind = "body"
    /\ ~event.data.chat.defined
    /\ GoodSentiment(event.data.sentiment) /\ GoodBody(event.data.translation)
    /\ resultsDisplay = "none"
    /\ sentimentResult = "Sentiment: POSITIVE (Score: 0.99)"
    /\ translationResult = "Bonjour"
    /\ chatResult = ""

\* C19 (as claimed), in front of the server that answers from the request:
\* the completion of one run never re-enables the control while another run
\* is pending, and once nothing is pending the results shown are those of the
\* text submitted last.
C19_LastSubmissionWins ==
    [][/\ (Len(runs') < Len(runs) /\ runs' # << >>) => btnDisabled' = TRUE
       /\ (runs' = << >> /\ resultsDisplay' = "block")
            => /\ translationResult'
                    = Reply([text |-> text']).translation.body.s
               /\ chatResult' = Reply([text |-> text']).chat.body.s]_vars

\* The two halves of C19 on their own.
C19_NoEarlyEnable ==
    [][(Len(runs') < Len(runs) /\ runs' # << >>) => btnDisabled' = TRUE]_vars
C19_ShownIsLast ==
    (runs = << >> /\ resultsDisplay = "block")
    => translationResult = Reply([text |-> text]).translation.body.s

====
